---- MODULE Spec2Model ----
(***************************************************************************)
(* FoodSave: the food-item lifecycle and the donation state machine.       *)
(*                                                                         *)
(* The state is the content of the tables food_items, donations and        *)
(* achievements, the current date, and the response of the last request.   *)
(* Every request handler of app/routes is one action: it runs from the     *)
(* lookup of its records to db.session.commit().                           *)
(*                                                                         *)
(* Spec runs the requests one after the other. SpecConc runs the donation  *)
(* requests on several workers, within one day and for items entered with  *)
(* one expiry date (the donation handlers read neither): a worker loads    *)
(* the donation's row into its session and runs the handler's checks on    *)
(* it, and a later step commits; the UPDATE of a commit sets the columns   *)
(* whose value the handler changed, in the row as the table holds it then. *)
(***************************************************************************)
EXTENDS Integers, Sequences, FiniteSets, TLC

VARIABLES
    today,         \* datetime.now(timezone.utc).date(), in whole days
    food_items,    \* table food_items: row id |-> row (ids are 1..Len)
    donations,     \* table donations: row id |-> row (ids are 1..Len)
    achievements,  \* table achievements, in insertion order
    response,      \* what the last request answered
    sessions,      \* per worker: the request it is serving and the row its
                   \* db.session has loaded (idle between requests)
    users          \* table users: row id |-> row (ids are 1..Len)

vars == <<today, food_items, donations, achievements, response, sessions, users>>

\* what a request that only answers leaves alone
vars_but_response == <<today, food_items, donations, achievements, sessions, users>>

----------------------------------------------------------------------------
(* Bounds of the model *)

NumUsers == 2
MaxItems == 1
MaxDonations == 2
MaxDay == 1
NumWorkers == 2
MaxAchievements == 3
MaxTotal == 10
DateMargin == 2

(* Program constants *)

\* food_item.py:41: an item with at most this many days left is expiring_soon
SoonDays == 3

Users == 1..NumUsers
ItemIds == 1..MaxItems
DonationIds == 1..MaxDonations

\* the expiry dates entered under SpecDates: every date from before the
\* first day to past the fresh boundary of the last day
ExpiryDates == (0 - DateMargin)..(MaxDay + SoonDays + DateMargin)
Workers == 1..NumWorkers

\* the usernames and the emails people register with
Usernames == 1..(NumUsers + 1)
Emails == 1..(NumUsers + 1)

\* the users under SpecRace: a donor and two others need one user more
RaceUsers == 1..(NumUsers + 1)

\* a NULL column (claimant_id, claimed_at, delivered_at)
NULL == 0 - 1

\* the expiry dates a user enters, relative to the day of the request: one
\* for each outcome of the date rule (expired, expiring_soon, fresh)
ExpiryOffsets == {0 - 1, SoonDays - 1, SoonDays + 1}

\* the status values a client may post to /update_status
PostedStatuses == {"consumed", "wasted", "fresh", "donated"}

----------------------------------------------------------------------------
(* app/models/food_item.py *)

days_until_expiry(item, t) == item.expiry_date - t

\* update_status with the boundary of expiring_soon off by one
FoodItem_update_status_strict(item, t) ==
    LET days_left == days_until_expiry(item, t)
    IN  IF days_left < 0
        THEN [item EXCEPT !.current_status = "expired"]
        ELSE IF days_left < SoonDays
             THEN [item EXCEPT !.current_status = "expiring_soon"]
             ELSE [item EXCEPT !.current_status = "fresh"]

FoodItem_update_status(item, t) ==
    LET days_left == days_until_expiry(item, t)
    IN  IF days_left < 0
        THEN [item EXCEPT !.current_status = "expired"]
        ELSE IF days_left <= SoonDays
             THEN [item EXCEPT !.current_status = "expiring_soon"]
             ELSE [item EXCEPT !.current_status = "fresh"]

\* FoodItem(**kwargs): the keyword arguments, then update_status()
FoodItem(user_id, expiry_date, t) ==
    FoodItem_update_status(
        [user_id |-> user_id, expiry_date |-> expiry_date,
         current_status |-> "none"], t)

(* app/models/user.py *)

\* usernames and emails are numbered
User(username, email) == [username |-> username, email |-> email]

\* the table after n users have registered, each under a name and an
\* email of their own
Registered(n) == [u \in 1..n |-> User(u, u)]

(* app/models/donation.py *)

Donation(food_item_id, donor_id) ==
    [food_item_id |-> food_item_id, donor_id |-> donor_id,
     claimant_id |-> NULL, status |-> "available",
     claimed_at |-> NULL, delivered_at |-> NULL]

(* app/models/achievement.py *)

ACHIEVEMENTS(key) ==
    CASE key = "first_donation" ->
             [name |-> "First Donation", type |-> "donation", target |-> 1]
      [] key = "waste_warrior" ->
             [name |-> "Waste Warrior", type |-> "waste_prevention", target |-> 10]
      [] key = "community_hero" ->
             [name |-> "Community Hero", type |-> "community", target |-> 25]
      [] key = "fresh_keeper" ->
             [name |-> "Fresh Keeper", type |-> "consumption", target |-> 50]

AchievementKeys == {"first_donation", "waste_warrior", "community_hero", "fresh_keeper"}

----------------------------------------------------------------------------
(* Responses *)

Response(op, user, id, code) ==
    [op |-> op, user |-> user, id |-> id, code |-> code, items |-> <<>>]

\* a worker between two requests
Idle == [pc |-> "idle", user |-> 0, id |-> 0, row |-> Donation(0, 0)]

Init ==
    /\ today = 0
    /\ food_items = <<>>
    /\ donations = <<>>
    /\ achievements = <<>>
    /\ response = Response("none", 0, 0, "ok")
    /\ sessions = [w \in Workers |-> Idle]
    /\ users = Registered(NumUsers)

----------------------------------------------------------------------------
(* app/routes/food.py *)

\* GET /inventory: update_status() on every item of the user, in the session
\* only: the handler never commits, so the table keeps what it held
dashboard(u) ==
    /\ response' =
           [Response("dashboard", u, 0, "ok") EXCEPT !.items =
               [i \in {j \in DOMAIN food_items : food_items[j].user_id = u} |->
                   FoodItem_update_status(food_items[i], today).current_status]]
    /\ UNCHANGED <<today, food_items, donations, achievements, sessions,
                   users>>

\* POST /add with a valid form
add_food(u, expiry_date) ==
    /\ Len(food_items) < MaxItems
    /\ food_items' = Append(food_items,
                            FoodItem_update_status(FoodItem(u, expiry_date, today), today))
    /\ response' = Response("add_food", u, Len(food_items) + 1, "ok")
    /\ UNCHANGED <<today, donations, achievements, sessions, users>>

\* update_status without the check that the caller owns the item
update_status_by_anyone(u, item_id, new_status) ==
    IF item_id \notin DOMAIN food_items
    THEN /\ response' = Response("update_status", u, item_id, "404")
         /\ UNCHANGED vars_but_response
    ELSE IF new_status \in {"consumed", "wasted"}
    THEN /\ food_items' = [food_items EXCEPT ![item_id].current_status = new_status]
         /\ response' = Response("update_status", u, item_id, "ok")
         /\ UNCHANGED <<today, donations, achievements, sessions, users>>
    ELSE /\ response' = Response("update_status", u, item_id, "400")
         /\ UNCHANGED vars_but_response

\* POST /update_status/<item_id> with JSON {status: new_status}
update_status(u, item_id, new_status) ==
    IF item_id \notin DOMAIN food_items
    THEN /\ response' = Response("update_status", u, item_id, "404")
         /\ UNCHANGED <<today, food_items, donations, achievements, sessions,
                        users>>
    ELSE IF food_items[item_id].user_id # u
    THEN /\ response' = Response("update_status", u, item_id, "rejected")
         /\ UNCHANGED <<today, food_items, donations, achievements, sessions,
                        users>>
    ELSE IF new_status \in {"consumed", "wasted"}
    THEN /\ food_items' = [food_items EXCEPT ![item_id].current_status = new_status]
         /\ response' = Response("update_status", u, item_id, "ok")
         /\ UNCHANGED <<today, donations, achievements, sessions, users>>
    ELSE /\ response' = Response("update_status", u, item_id, "400")
         /\ UNCHANGED <<today, food_items, donations, achievements, sessions,
                        users>>

\* GET /api/food_items: to_dict() of every item of the user; to_dict reads
\* current_status as the session loaded it and does not call update_status
api_food_items(u) ==
    /\ response' =
           [Response("api_food_items", u, 0, "ok") EXCEPT !.items =
               [i \in {j \in DOMAIN food_items : food_items[j].user_id = u} |->
                   food_items[i].current_status]]
    /\ UNCHANGED <<today, food_items, donations, achievements, sessions,
                   users>>

----------------------------------------------------------------------------
(* app/routes/donations.py *)

\* check_achievements(user_id, achievement_type) of donations.py: the table
\* after the call (existence is looked up by user and type)
donations_check_achievements(table, user_id, achievement_type) ==
    IF achievement_type \notin AchievementKeys
    THEN table
    ELSE IF \E k \in DOMAIN table :
                table[k].user_id = user_id /\ table[k].type = achievement_type
    THEN table
    ELSE Append(table, [user_id |-> user_id, type |-> achievement_type,
                        name |-> ACHIEVEMENTS(achievement_type).name,
                        progress |-> 100, target_value |-> 1])

\* create_donation that does not set the food item's status
create_donation_item_untouched(u, food_item_id) ==
    IF food_item_id = 0
    THEN /\ response' = Response("create_donation", u, food_item_id, "rejected")
         /\ UNCHANGED <<today, food_items, donations, achievements, sessions,
                        users>>
    ELSE IF food_item_id \notin DOMAIN food_items
    THEN /\ response' = Response("create_donation", u, food_item_id, "rejected")
         /\ UNCHANGED <<today, food_items, donations, achievements, sessions,
                        users>>
    ELSE /\ Len(donations) < MaxDonations
         /\ donations' = Append(donations, Donation(food_item_id, u))
         /\ LET user_donation_count ==
                    Cardinality({d \in DOMAIN donations' : donations'[d].donor_id = u})
            IN  achievements' =
                    IF user_donation_count = 1
                    THEN donations_check_achievements(achievements, u, "first_donation")
                    ELSE achievements
         /\ response' = Response("create_donation", u, food_item_id, "ok")
         /\ UNCHANGED <<today, food_items, sessions, users>>

\* POST /create with form field food_item_id (0: the field is missing)
create_donation(u, food_item_id) ==
    IF food_item_id = 0
    THEN /\ response' = Response("create_donation", u, food_item_id, "rejected")
         /\ UNCHANGED <<today, food_items, donations, achievements, sessions,
                        users>>
    ELSE IF food_item_id \notin DOMAIN food_items
    THEN /\ response' = Response("create_donation", u, food_item_id, "rejected")
         /\ UNCHANGED <<today, food_items, donations, achievements, sessions,
                        users>>
    ELSE /\ Len(donations) < MaxDonations
         /\ donations' = Append(donations, Donation(food_item_id, u))
         /\ food_items' = [food_items EXCEPT ![food_item_id].current_status = "donated"]
         /\ LET user_donation_count ==
                    Cardinality({d \in DOMAIN donations' : donations'[d].donor_id = u})
            IN  achievements' =
                    IF user_donation_count = 1
                    THEN donations_check_achievements(achievements, u, "first_donation")
                    ELSE achievements
         /\ response' = Response("create_donation", u, food_item_id, "ok")
         /\ UNCHANGED <<today, sessions, users>>

\* claim_donation without the check of the donation's status
claim_donation_any_status(u, donation_id) ==
    IF donation_id \notin DOMAIN donations
    THEN /\ response' = Response("claim_donation", u, donation_id, "404")
         /\ UNCHANGED <<today, food_items, donations, achievements, sessions,
                        users>>
    ELSE IF donations[donation_id].donor_id = u
    THEN /\ response' = Response("claim_donation", u, donation_id, "rejected")
         /\ UNCHANGED <<today, food_items, donations, achievements, sessions,
                        users>>
    ELSE /\ donations' = [donations EXCEPT ![donation_id].status = "claimed",
                                           ![donation_id].claimant_id = u,
                                           ![donation_id].claimed_at = today]
         /\ response' = Response("claim_donation", u, donation_id, "ok")
         /\ UNCHANGED <<today, food_items, achievements, sessions, users>>

\* POST /claim/<donation_id>
\* claim_donation that also marks the claimed food item consumed
claim_donation_consumes_item(u, donation_id) ==
    IF donation_id \notin DOMAIN donations
    THEN /\ response' = Response("claim_donation", u, donation_id, "404")
         /\ UNCHANGED vars_but_response
    ELSE IF donations[donation_id].status # "available"
    THEN /\ response' = Response("claim_donation", u, donation_id, "rejected")
         /\ UNCHANGED vars_but_response
    ELSE IF donations[donation_id].donor_id = u
    THEN /\ response' = Response("claim_donation", u, donation_id, "rejected")
         /\ UNCHANGED vars_but_response
    ELSE /\ donations' = [donations EXCEPT ![donation_id].status = "claimed",
                                           ![donation_id].claimant_id = u,
                                           ![donation_id].claimed_at = today]
         /\ food_items' =
                [food_items EXCEPT ![donations[donation_id].food_item_id]
                                        .current_status = "consumed"]
         /\ response' = Response("claim_donation", u, donation_id, "ok")
         /\ UNCHANGED <<today, achievements, sessions, users>>

claim_donation(u, donation_id) ==
    IF donation_id \notin DOMAIN donations
    THEN /\ response' = Response("claim_donation", u, donation_id, "404")
         /\ UNCHANGED <<today, food_items, donations, achievements, sessions,
                        users>>
    ELSE IF donations[donation_id].status # "available"
    THEN /\ response' = Response("claim_donation", u, donation_id, "rejected")
         /\ UNCHANGED <<today, food_items, donations, achievements, sessions,
                        users>>
    ELSE IF donations[donation_id].donor_id = u
    THEN /\ response' = Response("claim_donation", u, donation_id, "rejected")
         /\ UNCHANGED <<today, food_items, donations, achievements, sessions,
                        users>>
    ELSE /\ donations' = [donations EXCEPT ![donation_id].status = "claimed",
                                           ![donation_id].claimant_id = u,
                                           ![donation_id].claimed_at = today]
         /\ response' = Response("claim_donation", u, donation_id, "ok")
         /\ UNCHANGED <<today, food_items, achievements, sessions, users>>

\* complete_donation without the check that the caller is the donor
complete_donation_by_anyone(u, donation_id) ==
    IF donation_id \notin DOMAIN donations
    THEN /\ response' = Response("complete_donation", u, donation_id, "404")
         /\ UNCHANGED <<today, food_items, donations, achievements, sessions,
                        users>>
    ELSE /\ donations' = [donations EXCEPT ![donation_id].status = "completed"]
         /\ response' = Response("complete_donation", u, donation_id, "ok")
         /\ UNCHANGED <<today, food_items, achievements, sessions, users>>

\* POST /complete/<donation_id>; completed_at is no column of donations, so
\* the commit writes the status alone
\* complete_donation that looks the donation up with first() and redirects
\* when there is none
complete_donation_missing_redirects(u, donation_id) ==
    IF donation_id \notin DOMAIN donations
    THEN /\ response' = Response("complete_donation", u, donation_id, "rejected")
         /\ UNCHANGED vars_but_response
    ELSE IF donations[donation_id].donor_id # u
    THEN /\ response' = Response("complete_donation", u, donation_id, "rejected")
         /\ UNCHANGED vars_but_response
    ELSE /\ donations' = [donations EXCEPT ![donation_id].status = "completed"]
         /\ response' = Response("complete_donation", u, donation_id, "ok")
         /\ UNCHANGED <<today, food_items, achievements, sessions, users>>

complete_donation(u, donation_id) ==
    IF donation_id \notin DOMAIN donations
    THEN /\ response' = Response("complete_donation", u, donation_id, "404")
         /\ UNCHANGED <<today, food_items, donations, achievements, sessions,
                        users>>
    ELSE IF donations[donation_id].donor_id # u
    THEN /\ response' = Response("complete_donation", u, donation_id, "rejected")
         /\ UNCHANGED <<today, food_items, donations, achievements, sessions,
                        users>>
    ELSE /\ donations' = [donations EXCEPT ![donation_id].status = "completed"]
         /\ response' = Response("complete_donation", u, donation_id, "ok")
         /\ UNCHANGED <<today, food_items, achievements, sessions, users>>

\* cancel_donation without the check that the caller is the donor
cancel_donation_by_anyone(u, donation_id) ==
    IF donation_id \notin DOMAIN donations
    THEN /\ response' = Response("cancel_donation", u, donation_id, "404")
         /\ UNCHANGED <<today, food_items, donations, achievements, sessions,
                        users>>
    ELSE IF donations[donation_id].status \notin {"available", "claimed"}
    THEN /\ response' = Response("cancel_donation", u, donation_id, "rejected")
         /\ UNCHANGED <<today, food_items, donations, achievements, sessions,
                        users>>
    ELSE /\ donations' = [donations EXCEPT ![donation_id].status = "cancelled",
                                           ![donation_id].claimant_id = NULL,
                                           ![donation_id].claimed_at = NULL]
         /\ LET food_item_id == donations[donation_id].food_item_id
            IN  food_items' =
                    IF food_item_id \in DOMAIN food_items
                    THEN [food_items EXCEPT ![food_item_id].current_status = "fresh"]
                    ELSE food_items
         /\ response' = Response("cancel_donation", u, donation_id, "ok")
         /\ UNCHANGED <<today, achievements, sessions, users>>

\* cancel_donation that leaves the claimant and its timestamp in the row
cancel_donation_keeps_claimant(u, donation_id) ==
    IF donation_id \notin DOMAIN donations
    THEN /\ response' = Response("cancel_donation", u, donation_id, "404")
         /\ UNCHANGED <<today, food_items, donations, achievements, sessions,
                        users>>
    ELSE IF donations[donation_id].donor_id # u
    THEN /\ response' = Response("cancel_donation", u, donation_id, "rejected")
         /\ UNCHANGED <<today, food_items, donations, achievements, sessions,
                        users>>
    ELSE IF donations[donation_id].status \notin {"available", "claimed"}
    THEN /\ response' = Response("cancel_donation", u, donation_id, "rejected")
         /\ UNCHANGED <<today, food_items, donations, achievements, sessions,
                        users>>
    ELSE /\ donations' = [donations EXCEPT ![donation_id].status = "cancelled"]
         /\ LET food_item_id == donations[donation_id].food_item_id
            IN  food_items' =
                    IF food_item_id \in DOMAIN food_items
                    THEN [food_items EXCEPT ![food_item_id].current_status = "fresh"]
                    ELSE food_items
         /\ response' = Response("cancel_donation", u, donation_id, "ok")
         /\ UNCHANGED <<today, achievements, sessions, users>>

\* POST /cancel/<donation_id>
cancel_donation(u, donation_id) ==
    IF donation_id \notin DOMAIN donations
    THEN /\ response' = Response("cancel_donation", u, donation_id, "404")
         /\ UNCHANGED <<today, food_items, donations, achievements, sessions,
                        users>>
    ELSE IF donations[donation_id].donor_id # u
    THEN /\ response' = Response("cancel_donation", u, donation_id, "rejected")
         /\ UNCHANGED <<today, food_items, donations, achievements, sessions,
                        users>>
    ELSE IF donations[donation_id].status \notin {"available", "claimed"}
    THEN /\ response' = Response("cancel_donation", u, donation_id, "rejected")
         /\ UNCHANGED <<today, food_items, donations, achievements, sessions,
                        users>>
    ELSE /\ donations' = [donations EXCEPT ![donation_id].status = "cancelled",
                                           ![donation_id].claimant_id = NULL,
                                           ![donation_id].claimed_at = NULL]
         /\ LET food_item_id == donations[donation_id].food_item_id
            IN  food_items' =
                    IF food_item_id \in DOMAIN food_items
                    THEN [food_items EXCEPT ![food_item_id].current_status = "fresh"]
                    ELSE food_items
         /\ response' = Response("cancel_donation", u, donation_id, "ok")
         /\ UNCHANGED <<today, achievements, sessions, users>>

\* the form field message of /send_message: empty, or a text
Messages == {"", "hello"}

\* the contact details a page or a flash message shows of a user
Contact(user_id) == [to |-> user_id, email |-> users[user_id].email]

\* contact_donor that shows the page to every logged-in user
contact_donor_to_anyone(u, donation_id) ==
    IF donation_id \notin DOMAIN donations
    THEN /\ response' = Response("contact_donor", u, donation_id, "404")
         /\ UNCHANGED vars_but_response
    ELSE /\ response' = [Response("contact_donor", u, donation_id, "ok")
                            EXCEPT !.items =
                                <<Contact(donations[donation_id].donor_id)>>]
         /\ UNCHANGED vars_but_response

\* GET /contact/<donation_id>: the page shows the donor's contact information
contact_donor(u, donation_id) ==
    IF donation_id \notin DOMAIN donations
    THEN /\ response' = Response("contact_donor", u, donation_id, "404")
         /\ UNCHANGED vars_but_response
    ELSE IF /\ donations[donation_id].claimant_id # u
            /\ donations[donation_id].donor_id # u
    THEN /\ response' = Response("contact_donor", u, donation_id, "rejected")
         /\ UNCHANGED vars_but_response
    ELSE /\ response' = [Response("contact_donor", u, donation_id, "ok")
                            EXCEPT !.items =
                                <<Contact(donations[donation_id].donor_id)>>]
         /\ UNCHANGED vars_but_response

\* POST /send_message/<donation_id> with form field message. The donor's
\* branch reads donation.claimant.email: with claimant_id NULL the
\* relationship is None and the attribute access raises (HTTP 500)
send_message(u, donation_id, message) ==
    IF donation_id \notin DOMAIN donations
    THEN /\ response' = Response("send_message", u, donation_id, "404")
         /\ UNCHANGED vars_but_response
    ELSE IF message = ""
    THEN /\ response' = Response("send_message", u, donation_id, "no message")
         /\ UNCHANGED vars_but_response
    ELSE IF u \notin {donations[donation_id].donor_id,
                      donations[donation_id].claimant_id}
    THEN /\ response' = Response("send_message", u, donation_id, "rejected")
         /\ UNCHANGED vars_but_response
    ELSE IF u = donations[donation_id].claimant_id
    THEN /\ response' = [Response("send_message", u, donation_id, "ok")
                            EXCEPT !.items =
                                <<Contact(donations[donation_id].donor_id)>>]
         /\ UNCHANGED vars_but_response
    ELSE IF donations[donation_id].claimant_id = NULL
    THEN /\ response' = Response("send_message", u, donation_id, "500")
         /\ UNCHANGED vars_but_response
    ELSE /\ response' = [Response("send_message", u, donation_id, "ok")
                            EXCEPT !.items =
                                <<Contact(donations[donation_id].claimant_id)>>]
         /\ UNCHANGED vars_but_response

----------------------------------------------------------------------------
(* The calendar *)

Tick ==
    /\ today < MaxDay
    /\ today' = today + 1
    /\ UNCHANGED <<food_items, donations, achievements, response, sessions,
                   users>>

Next ==
    \/ \E u \in Users : dashboard(u)
    \/ \E u \in Users : api_food_items(u)
    \/ \E u \in Users, o \in ExpiryOffsets : add_food(u, today + o)
    \/ \E u \in Users, i \in ItemIds, s \in PostedStatuses : update_status(u, i, s)
    \/ \E u \in Users, i \in {0} \cup ItemIds : create_donation(u, i)
    \/ \E u \in Users, d \in DonationIds : claim_donation(u, d)
    \/ \E u \in Users, d \in DonationIds : complete_donation(u, d)
    \/ \E u \in Users, d \in DonationIds : cancel_donation(u, d)
    \/ \E u \in Users, d \in DonationIds : contact_donor(u, d)
    \/ \E u \in Users, d \in DonationIds, m \in Messages : send_message(u, d, m)
    \/ Tick

Spec == Init /\ [][Next]_vars

----------------------------------------------------------------------------
(* The date rule alone: items are entered with any expiry date on any day, *)
(* and listed                                                              *)

InitDates ==
    /\ today \in 0..MaxDay
    /\ food_items = <<>>
    /\ donations = <<>>
    /\ achievements = <<>>
    /\ response = Response("none", 0, 0, "ok")
    /\ sessions = [w \in Workers |-> Idle]
    /\ users = Registered(NumUsers)

NextDates ==
    \/ \E u \in Users, d \in ExpiryDates : add_food(u, d)
    \/ \E u \in Users : dashboard(u)
    \/ Tick

SpecDates == InitDates /\ [][NextDates]_vars

----------------------------------------------------------------------------
(* The donation requests on concurrent workers *)

\* db.session.commit() of a session that loaded `loaded` and holds `new`:
\* the UPDATE sets the columns whose value differs from the loaded one
Flush(stored, loaded, new) ==
    [c \in DOMAIN stored |-> IF new[c] # loaded[c] THEN new[c] ELSE stored[c]]

\* A handler's checks read the loaded row alone, so they are run with the
\* lookup: a request that fails them answers at once and writes nothing, and
\* one that passes them is held in the session until its commit.
InFlight(op, u, donation_id) ==
    [pc |-> op, user |-> u, id |-> donation_id, row |-> donations[donation_id]]

\* claim_donation_load without the check that the caller is not the donor
claim_donation_load_own(w, u, donation_id) ==
    /\ sessions[w].pc = "idle"
    /\ IF donation_id \notin DOMAIN donations
       THEN /\ response' = Response("claim_donation", u, donation_id, "404")
            /\ UNCHANGED sessions
       ELSE IF donations[donation_id].status # "available"
       THEN /\ response' = Response("claim_donation", u, donation_id, "rejected")
            /\ UNCHANGED sessions
       ELSE /\ sessions' = [sessions EXCEPT ![w] =
                               InFlight("claim_donation", u, donation_id)]
            /\ UNCHANGED response
    /\ UNCHANGED <<today, food_items, donations, achievements, users>>

\* claim_donation from the lookup of the donation to the end of its checks
claim_donation_load(w, u, donation_id) ==
    /\ sessions[w].pc = "idle"
    /\ IF donation_id \notin DOMAIN donations
       THEN /\ response' = Response("claim_donation", u, donation_id, "404")
            /\ UNCHANGED sessions
       ELSE IF donations[donation_id].status # "available"
       THEN /\ response' = Response("claim_donation", u, donation_id, "rejected")
            /\ UNCHANGED sessions
       ELSE IF donations[donation_id].donor_id = u
       THEN /\ response' = Response("claim_donation", u, donation_id, "rejected")
            /\ UNCHANGED sessions
       ELSE /\ sessions' = [sessions EXCEPT ![w] =
                               InFlight("claim_donation", u, donation_id)]
            /\ UNCHANGED response
    /\ UNCHANGED <<today, food_items, donations, achievements, users>>

\* claim_donation_commit with an optimistic lock: the UPDATE applies only to
\* a row that still has the status the session loaded
claim_donation_commit_locked(w) ==
    LET u == sessions[w].user
        donation_id == sessions[w].id
        donation == sessions[w].row
    IN  /\ sessions[w].pc = "claim_donation"
        /\ sessions' = [sessions EXCEPT ![w] = Idle]
        /\ IF donations[donation_id].status = donation.status
           THEN /\ donations' = [donations EXCEPT ![donation_id] =
                                    Flush(@, donation,
                                          [donation EXCEPT !.status = "claimed",
                                                           !.claimant_id = u,
                                                           !.claimed_at = today])]
                /\ response' = Response("claim_donation", u, donation_id, "ok")
           ELSE /\ donations' = donations
                /\ response' = Response("claim_donation", u, donation_id, "rejected")
        /\ UNCHANGED <<today, food_items, achievements, users>>

\* claim_donation from its assignments to its commit
claim_donation_commit(w) ==
    LET u == sessions[w].user
        donation_id == sessions[w].id
        donation == sessions[w].row
    IN  /\ sessions[w].pc = "claim_donation"
        /\ sessions' = [sessions EXCEPT ![w] = Idle]
        /\ donations' = [donations EXCEPT ![donation_id] =
                            Flush(@, donation,
                                  [donation EXCEPT !.status = "claimed",
                                                   !.claimant_id = u,
                                                   !.claimed_at = today])]
        /\ response' = Response("claim_donation", u, donation_id, "ok")
        /\ UNCHANGED <<today, food_items, achievements, users>>

\* complete_donation from the lookup of the donation to the end of its check
complete_donation_load(w, u, donation_id) ==
    /\ sessions[w].pc = "idle"
    /\ IF donation_id \notin DOMAIN donations
       THEN /\ response' = Response("complete_donation", u, donation_id, "404")
            /\ UNCHANGED sessions
       ELSE IF donations[donation_id].donor_id # u
       THEN /\ response' = Response("complete_donation", u, donation_id, "rejected")
            /\ UNCHANGED sessions
       ELSE /\ sessions' = [sessions EXCEPT ![w] =
                               InFlight("complete_donation", u, donation_id)]
            /\ UNCHANGED response
    /\ UNCHANGED <<today, food_items, donations, achievements, users>>

\* complete_donation from its assignments to its commit
complete_donation_commit(w) ==
    LET u == sessions[w].user
        donation_id == sessions[w].id
        donation == sessions[w].row
    IN  /\ sessions[w].pc = "complete_donation"
        /\ sessions' = [sessions EXCEPT ![w] = Idle]
        /\ donations' = [donations EXCEPT ![donation_id] =
                            Flush(@, donation,
                                  [donation EXCEPT !.status = "completed"])]
        /\ response' = Response("complete_donation", u, donation_id, "ok")
        /\ UNCHANGED <<today, food_items, achievements, users>>

\* cancel_donation from the lookup of the donation to the end of its checks
cancel_donation_load(w, u, donation_id) ==
    /\ sessions[w].pc = "idle"
    /\ IF donation_id \notin DOMAIN donations
       THEN /\ response' = Response("cancel_donation", u, donation_id, "404")
            /\ UNCHANGED sessions
       ELSE IF donations[donation_id].donor_id # u
       THEN /\ response' = Response("cancel_donation", u, donation_id, "rejected")
            /\ UNCHANGED sessions
       ELSE IF donations[donation_id].status \notin {"available", "claimed"}
       THEN /\ response' = Response("cancel_donation", u, donation_id, "rejected")
            /\ UNCHANGED sessions
       ELSE /\ sessions' = [sessions EXCEPT ![w] =
                               InFlight("cancel_donation", u, donation_id)]
            /\ UNCHANGED response
    /\ UNCHANGED <<today, food_items, donations, achievements, users>>

\* cancel_donation from its assignments to its commit; the food item is
\* looked up here, right before the commit, and its status set to fresh
cancel_donation_commit(w) ==
    LET u == sessions[w].user
        donation_id == sessions[w].id
        donation == sessions[w].row
    IN  /\ sessions[w].pc = "cancel_donation"
        /\ sessions' = [sessions EXCEPT ![w] = Idle]
        /\ donations' = [donations EXCEPT ![donation_id] =
                            Flush(@, donation,
                                  [donation EXCEPT !.status = "cancelled",
                                                   !.claimant_id = NULL,
                                                   !.claimed_at = NULL])]
        /\ food_items' =
               IF donation.food_item_id \in DOMAIN food_items
               THEN [food_items EXCEPT
                        ![donation.food_item_id].current_status = "fresh"]
               ELSE food_items
        /\ response' = Response("cancel_donation", u, donation_id, "ok")
        /\ UNCHANGED <<today, achievements, users>>

\* a request served in one step by a worker with no request in progress
\* (add_food and create_donation, which SpecConc does not split)
Serve(w, request) == sessions[w].pc = "idle" /\ request

NextConc ==
    \/ \E w \in Workers, u \in Users :
           Serve(w, add_food(u, today + SoonDays - 1))
    \/ \E w \in Workers, u \in Users, i \in ItemIds :
           Serve(w, create_donation(u, i))
    \/ \E w \in Workers, u \in Users, d \in DonationIds :
           claim_donation_load(w, u, d)
    \/ \E w \in Workers, u \in Users, d \in DonationIds :
           complete_donation_load(w, u, d)
    \/ \E w \in Workers, u \in Users, d \in DonationIds :
           cancel_donation_load(w, u, d)
    \/ \E w \in Workers : claim_donation_commit(w)
    \/ \E w \in Workers : complete_donation_commit(w)
    \/ \E w \in Workers : cancel_donation_commit(w)

SpecConc == Init /\ [][NextConc]_vars

----------------------------------------------------------------------------
(* Concurrent claims: one more user than elsewhere, and only the requests  *)
(* that lead to a claim                                                    *)

NextRace ==
    \/ \E w \in Workers, u \in RaceUsers :
           Serve(w, add_food(u, today + SoonDays - 1))
    \/ \E w \in Workers, u \in RaceUsers, i \in ItemIds :
           Serve(w, create_donation(u, i))
    \/ \E w \in Workers, u \in RaceUsers, d \in DonationIds :
           claim_donation_load(w, u, d)
    \/ \E w \in Workers : claim_donation_commit(w)

InitRace ==
    /\ today = 0
    /\ food_items = <<>>
    /\ donations = <<>>
    /\ achievements = <<>>
    /\ response = Response("none", 0, 0, "ok")
    /\ sessions = [w \in Workers |-> Idle]
    /\ users = Registered(NumUsers + 1)

SpecRace == InitRace /\ [][NextRace]_vars

----------------------------------------------------------------------------
(* The achievement evaluator of app/models/achievement.py *)

\* the definitions in the order of the dictionary
AchievementOrder ==
    <<"first_donation", "waste_warrior", "community_hero", "fresh_keeper">>

\* the categories an event can carry: the types of the definitions, and the
\* key donations.py passes as a type, which is the type of no definition
EventTypes == {ACHIEVEMENTS(k).type : k \in AchievementKeys} \cup {"first_donation"}

\* the counts around every target
EventCounts ==
    UNION {{ACHIEVEMENTS(k).target - 1, ACHIEVEMENTS(k).target} : k \in AchievementKeys}

\* the test of one definition, without the lookup of an existing record
qualifies_without_existing(table, user_id, achievement_data, current_count) ==
    current_count >= achievement_data.target

\* the test of one definition, with a count that must exceed the target
qualifies_above_target(table, user_id, achievement_data, current_count) ==
    LET existing == \E k \in DOMAIN table :
                        /\ table[k].user_id = user_id
                        /\ table[k].name = achievement_data.name
    IN  ~existing /\ current_count > achievement_data.target

\* the test of one definition: not existing and current_count >= target
qualifies(table, user_id, achievement_data, current_count) ==
    LET existing == \E k \in DOMAIN table :
                        /\ table[k].user_id = user_id
                        /\ table[k].name = achievement_data.name
    IN  ~existing /\ current_count >= achievement_data.target

\* the loop over the definitions from the k-th on; a query of the loop sees
\* the records the loop has added to the session
RECURSIVE earned_achievements(_, _, _, _, _)
earned_achievements(table, user_id, achievement_type, current_count, k) ==
    IF k > Len(AchievementOrder)
    THEN <<>>
    ELSE LET achievement_data == ACHIEVEMENTS(AchievementOrder[k])
             new_achievement ==
                 IF /\ achievement_data.type = achievement_type
                    /\ qualifies(table, user_id, achievement_data, current_count)
                 THEN <<[user_id |-> user_id,
                         type |-> achievement_data.type,
                         name |-> achievement_data.name,
                         progress |-> 100,
                         target_value |-> achievement_data.target]>>
                 ELSE <<>>
         IN  new_achievement \o
             earned_achievements(table \o new_achievement, user_id,
                                 achievement_type, current_count, k + 1)

\* the names of the records of a list
names(earned) == [i \in DOMAIN earned |-> earned[i].name]

\* one call of the evaluator; the response holds the arguments (the count as
\* id, the category as code) and the names of the earned achievements
check_achievements(u, achievement_type, current_count) ==
    LET earned == earned_achievements(achievements, u, achievement_type,
                                      current_count, 1)
    IN  /\ Len(achievements) + Len(earned) <= MaxAchievements
        /\ achievements' = achievements \o earned
        /\ response' = [Response("check_achievements", u, current_count,
                                 achievement_type)
                           EXCEPT !.items = names(earned)]
        /\ UNCHANGED <<today, food_items, donations, sessions, users>>

NextEval ==
    \E u \in Users, achievement_type \in EventTypes, current_count \in EventCounts :
        check_achievements(u, achievement_type, current_count)

SpecEval == Init /\ [][NextEval]_vars

\* The evaluator on concurrent workers: the queries of the loop, and later
\* the commit that inserts what the loop added
check_achievements_load(w, u, achievement_type, current_count) ==
    LET earned == earned_achievements(achievements, u, achievement_type,
                                      current_count, 1)
    IN  /\ sessions[w].pc = "idle"
        /\ IF earned = <<>>
           THEN /\ sessions' = sessions
                /\ response' = Response("check_achievements", u, current_count,
                                        achievement_type)
           ELSE /\ sessions' = [sessions EXCEPT ![w] =
                                   [pc |-> "check_achievements", user |-> u,
                                    id |-> current_count, row |-> earned]]
                /\ response' = response
        /\ UNCHANGED <<today, food_items, donations, achievements, users>>

check_achievements_commit(w) ==
    LET earned == sessions[w].row
    IN  /\ sessions[w].pc = "check_achievements"
        /\ Len(achievements) + Len(earned) <= MaxAchievements
        /\ achievements' = achievements \o earned
        /\ sessions' = [sessions EXCEPT ![w] = Idle]
        /\ response' = [Response("check_achievements", sessions[w].user,
                                 sessions[w].id, earned[1].type)
                           EXCEPT !.items = names(earned)]
        /\ UNCHANGED <<today, food_items, donations, users>>

\* every event comes with the count that reaches the target of its category
NextAch ==
    \/ \E w \in Workers, u \in Users, k \in AchievementKeys :
           check_achievements_load(w, u, ACHIEVEMENTS(k).type,
                                   ACHIEVEMENTS(k).target)
    \/ \E w \in Workers : check_achievements_commit(w)

SpecAch == Init /\ [][NextAch]_vars

----------------------------------------------------------------------------
(* The waste statistics of app/routes/main.py and                          *)
(* app/utils/food_calculations.py                                          *)
(*                                                                         *)
(* A percentage is held as a whole number of units of 10^-ndigits: 333     *)
(* with ndigits 1 is 33.3. round is Python's round(x, ndigits) of the      *)
(* quotient numerator/denominator: to the nearest unit, a tie to the even  *)
(* one. (A tie needs a denominator that is a multiple of 16, so within     *)
(* MaxTotal the float quotient and the exact one round alike.)             *)

units(ndigits) == IF ndigits = 1 THEN 10 ELSE 100

\* the quotient cut off after ndigits decimals
round_down(numerator, denominator, ndigits) ==
    (numerator * units(ndigits)) \div denominator

round(numerator, denominator, ndigits) ==
    LET scaled == numerator * units(ndigits)
        q == scaled \div denominator
        r == scaled % denominator
    IN  IF 2 * r < denominator THEN q
        ELSE IF 2 * r > denominator THEN q + 1
        ELSE IF q % 2 = 0 THEN q ELSE q + 1

\* the answer of a statistics function: the percentage and its decimals
Stats(op, user_id, waste_percentage, ndigits) ==
    [Response(op, user_id, 0, "ok")
        EXCEPT !.items = <<[waste_percentage |-> waste_percentage,
                            ndigits |-> ndigits]>>]

get_user_stats(user_id) ==
    LET user_items == {i \in DOMAIN food_items : food_items[i].user_id = user_id}
        wasted_count ==
            Cardinality({i \in user_items : food_items[i].current_status = "wasted"})
        total_items == Cardinality(user_items)
        waste_percentage ==
            IF total_items > 0
            THEN round(wasted_count * 100, total_items, 1)
            ELSE 0
    IN  /\ response' = Stats("get_user_stats", user_id, waste_percentage, 1)
        /\ UNCHANGED <<today, food_items, donations, achievements, sessions,
                       users>>

calculate_waste_stats(user_id) ==
    LET items == {i \in DOMAIN food_items : food_items[i].user_id = user_id}
        total_items == Cardinality(items)
        wasted ==
            Cardinality({i \in items : food_items[i].current_status = "wasted"})
    IN  /\ response' =
               IF total_items > 0
               THEN Stats("calculate_waste_stats", user_id,
                          round(wasted * 100, total_items, 2), 2)
               \* waste_percentage = 0, then round(waste_percentage, 2)
               ELSE Stats("calculate_waste_stats", user_id, round(0, 1, 2), 2)
        /\ UNCHANGED <<today, food_items, donations, achievements, sessions,
                       users>>

\* an inventory of the first user: total items entered fresh, of which the
\* first wasted ones have been marked wasted; the other users have none
Inventory(total, wasted) ==
    [i \in 1..total |->
        IF i <= wasted
        THEN [FoodItem(1, SoonDays + 1, 0) EXCEPT !.current_status = "wasted"]
        ELSE FoodItem(1, SoonDays + 1, 0)]

InitStats ==
    /\ today = 0
    /\ \E total \in 0..MaxTotal : \E wasted \in 0..total :
           food_items = Inventory(total, wasted)
    /\ donations = <<>>
    /\ achievements = <<>>
    /\ response = Response("none", 0, 0, "ok")
    /\ sessions = [w \in Workers |-> Idle]
    /\ users = Registered(NumUsers)

NextStats ==
    \/ \E u \in Users : get_user_stats(u)
    \/ \E u \in Users : calculate_waste_stats(u)

SpecStats == InitStats /\ [][NextStats]_vars

----------------------------------------------------------------------------
(* create_donation on concurrent workers: the request up to the commit of  *)
(* the donation, and later the count of the donor's donations with the     *)
(* achievement check                                                       *)

create_donation_commit(w, u, food_item_id) ==
    /\ sessions[w].pc = "idle"
    /\ IF food_item_id = 0 \/ food_item_id \notin DOMAIN food_items
       THEN /\ response' = Response("create_donation", u, food_item_id, "rejected")
            /\ UNCHANGED <<today, food_items, donations, achievements, sessions,
                           users>>
       ELSE /\ Len(donations) < MaxDonations
            /\ donations' = Append(donations, Donation(food_item_id, u))
            /\ food_items' =
                   [food_items EXCEPT ![food_item_id].current_status = "donated"]
            /\ sessions' = [sessions EXCEPT ![w] =
                               [pc |-> "create_donation", user |-> u,
                                id |-> Len(donations) + 1,
                                row |-> Donation(food_item_id, u)]]
            /\ UNCHANGED <<today, achievements, response, users>>

create_donation_count(w) ==
    LET u == sessions[w].user
        user_donation_count ==
            Cardinality({d \in DOMAIN donations : donations[d].donor_id = u})
    IN  /\ sessions[w].pc = "create_donation"
        /\ achievements' =
               IF user_donation_count = 1
               THEN donations_check_achievements(achievements, u, "first_donation")
               ELSE achievements
        /\ sessions' = [sessions EXCEPT ![w] = Idle]
        /\ response' = Response("create_donation", u,
                                donations[sessions[w].id].food_item_id, "ok")
        /\ UNCHANGED <<today, food_items, donations, users>>

NextCreate ==
    \/ \E w \in Workers, u \in Users :
           Serve(w, add_food(u, today + SoonDays - 1))
    \/ \E w \in Workers, u \in Users, i \in {0} \cup ItemIds :
           create_donation_commit(w, u, i)
    \/ \E w \in Workers : create_donation_count(w)
    \/ \E w \in Workers, u \in Users, d \in DonationIds :
           Serve(w, cancel_donation(u, d))

SpecCreate == Init /\ [][NextCreate]_vars

----------------------------------------------------------------------------
(* Registration (app/routes/auth.py) on concurrent workers: the form's     *)
(* validation, and later the commit of the new row. The table starts       *)
(* empty.                                                                  *)

\* RegistrationForm.validate_username and validate_email: a query each
validate_on_submit(username, email) ==
    /\ ~\E i \in DOMAIN users : users[i].username = username
    /\ ~\E i \in DOMAIN users : users[i].email = email

\* the columns username and email are declared unique=True: the INSERT of a
\* row that repeats either fails (IntegrityError)
unique_constraints(table, user) ==
    /\ ~\E i \in DOMAIN table : table[i].username = user.username
    /\ ~\E i \in DOMAIN table : table[i].email = user.email

register_validate(w, username, email) ==
    /\ sessions[w].pc = "idle"
    /\ IF validate_on_submit(username, email)
       THEN /\ sessions' = [sessions EXCEPT ![w] =
                               [pc |-> "register", user |-> 0, id |-> 0,
                                row |-> User(username, email)]]
            /\ UNCHANGED <<today, food_items, donations, achievements,
                           response, users>>
       ELSE /\ response' = Response("register", username, email, "rejected")
            /\ UNCHANGED vars_but_response

\* the commit on a table without the unique constraints
register_commit_unconstrained(w) ==
    LET user == sessions[w].row
    IN  /\ sessions[w].pc = "register"
        /\ sessions' = [sessions EXCEPT ![w] = Idle]
        /\ users' = Append(users, user)
        /\ response' = Response("register", user.username, user.email, "ok")
        /\ UNCHANGED <<today, food_items, donations, achievements>>

\* db.session.add(user); db.session.commit(): the IntegrityError of a
\* repeated username or email is not handled (HTTP 500)
register_commit(w) ==
    LET user == sessions[w].row
    IN  /\ sessions[w].pc = "register"
        /\ sessions' = [sessions EXCEPT ![w] = Idle]
        /\ IF unique_constraints(users, user)
           THEN /\ users' = Append(users, user)
                /\ response' = Response("register", user.username, user.email, "ok")
           ELSE /\ users' = users
                /\ response' = Response("register", user.username, user.email, "500")
        /\ UNCHANGED <<today, food_items, donations, achievements>>

InitRegister ==
    /\ today = 0
    /\ food_items = <<>>
    /\ donations = <<>>
    /\ achievements = <<>>
    /\ response = Response("none", 0, 0, "ok")
    /\ sessions = [w \in Workers |-> Idle]
    /\ users = <<>>

NextRegister ==
    \/ \E w \in Workers, username \in Usernames, email \in Emails :
           register_validate(w, username, email)
    \/ \E w \in Workers : register_commit(w)

SpecRegister == InitRegister /\ [][NextRegister]_vars

----------------------------------------------------------------------------
(* The notification stubs of app/utils/notifications.py                    *)
(*                                                                         *)
(* Every stub is a try block that builds a message and prints it, and an   *)
(* except block that prints the error. An argument is None or an object;   *)
(* print raises when sys.stdout cannot be written (printable is FALSE).    *)

None == <<>>
Some(x) == <<x>>

\* the id the response records of an optional argument
IdOf(optional) == IF optional = None THEN NULL ELSE optional[1]

\* what the caller gets: the try block returns True; an exception in it
\* enters the except block, which returns False unless it raises itself
Outcome(try_raises, except_raises) ==
    IF ~try_raises THEN "True"
    ELSE IF except_raises THEN "raises"
    ELSE "False"

\* the except block prints user.email along with the error
send_expiry_alert(user, expiring_items, printable) ==
    /\ response' =
           Response("send_expiry_alert", IdOf(user), 0,
                    Outcome(expiring_items = None \/ user = None \/ ~printable,
                            user = None \/ ~printable))
    /\ UNCHANGED vars_but_response

\* the except block prints user.email along with the error
send_waste_report(user, stats, printable) ==
    /\ response' =
           Response("send_waste_report", IdOf(user), 0,
                    Outcome(user = None \/ stats = None \/ ~printable,
                            user = None \/ ~printable))
    /\ UNCHANGED vars_but_response

\* an unknown notification_type returns False after donation.donor and
\* donation.food_item were read and before anything is printed
send_donation_notification(donation, notification_type, printable) ==
    /\ response' =
           Response("send_donation_notification", 0, IdOf(donation),
                    IF /\ donation # None
                       /\ notification_type \notin {"claimed", "completed", "new"}
                    THEN "False"
                    ELSE Outcome(donation = None \/ ~printable, ~printable))
    /\ UNCHANGED vars_but_response

send_welcome_email(user, printable) ==
    /\ response' =
           Response("send_welcome_email", IdOf(user), 0,
                    Outcome(user = None \/ ~printable, ~printable))
    /\ UNCHANGED vars_but_response

send_test_notification(printable) ==
    /\ response' =
           Response("send_test_notification", 0, 0,
                    Outcome(~printable, ~printable))
    /\ UNCHANGED vars_but_response

NotificationTypes == {"claimed", "completed", "new", "cancelled"}

OptionalUsers == {None} \cup {Some(u) : u \in DOMAIN users}

\* the stubs, called with the records that donations have left
NextNotify ==
    \/ \E u \in Users : add_food(u, today + SoonDays - 1)
    \/ \E u \in Users, i \in ItemIds : create_donation(u, i)
    \/ \E u \in Users, d \in DonationIds : claim_donation(u, d)
    \/ \E user \in OptionalUsers, expiring_items \in {None, Some(food_items)},
          printable \in BOOLEAN :
           send_expiry_alert(user, expiring_items, printable)
    \/ \E user \in OptionalUsers, stats \in {None, Some(0)},
          printable \in BOOLEAN :
           send_waste_report(user, stats, printable)
    \/ \E donation \in {None} \cup {Some(d) : d \in DOMAIN donations},
          notification_type \in NotificationTypes, printable \in BOOLEAN :
           send_donation_notification(donation, notification_type, printable)
    \/ \E user \in OptionalUsers, printable \in BOOLEAN :
           send_welcome_email(user, printable)
    \/ \E printable \in BOOLEAN : send_test_notification(printable)

SpecNotify == Init /\ [][NextNotify]_vars

----------------------------------------------------------------------------
(* The properties *)

TerminalStatuses == {"consumed", "wasted", "donated"}

LegalTransitions ==
    {<<"available", "claimed">>, <<"claimed", "completed">>,
     <<"available", "cancelled">>, <<"claimed", "cancelled">>}

\* C1: the date-based recomputation of /inventory leaves every item whose
\* status is consumed, wasted or donated with the status it had: the status
\* the page holds for such an item is the stored one.
C1_TerminalStatusKept ==
    response.op = "dashboard" =>
        \A i \in DOMAIN response.items :
            food_items[i].current_status \in TerminalStatuses =>
                response.items[i] = food_items[i].current_status

\* C2: whatever the requests, a donation's status changes only along
\* available->claimed, claimed->completed, available->cancelled or
\* claimed->cancelled (so completed and cancelled are final).
C2_LegalTransitions ==
    [][\A d \in DOMAIN donations :
          donations'[d].status # donations[d].status =>
              <<donations[d].status, donations'[d].status>> \in LegalTransitions]_vars

\* C3: a POST /create naming a food item of another user creates no donation
\* and leaves the item's status as it was.
C3_CreateOnlyOwnItem ==
    [][\A u \in Users, i \in ItemIds :
          (/\ create_donation(u, i)
           /\ i \in DOMAIN food_items
           /\ food_items[i].user_id # u)
          => /\ donations' = donations
             /\ food_items'[i].current_status = food_items[i].current_status]_vars

\* C4: a POST /create naming an item whose status is expired, consumed,
\* wasted or donated creates no donation and leaves the item's status as it
\* was.
C4_CreateOnlyFreshOrExpiringSoon ==
    [][\A u \in Users, i \in ItemIds :
          (/\ create_donation(u, i)
           /\ i \in DOMAIN food_items
           /\ food_items[i].current_status \notin {"fresh", "expiring_soon"})
          => /\ donations' = donations
             /\ food_items'[i].current_status = food_items[i].current_status]_vars

\* C5: a claim of a donation that is not available, or by its donor, fails
\* and leaves the donation as it was; a claim of an available donation by
\* another user succeeds and sets status claimed, claimant = caller and
\* claimed_at, and nothing else of the donation.
C5_ClaimOnlyAvailableByOther ==
    [][\A u \in Users, d \in DonationIds :
          (claim_donation(u, d) /\ d \in DOMAIN donations)
          => IF donations[d].status = "available" /\ donations[d].donor_id # u
             THEN /\ response'.code = "ok"
                  /\ donations' = [donations EXCEPT
                                       ![d] = [donations[d] EXCEPT
                                                  !.status = "claimed",
                                                  !.claimant_id = u,
                                                  !.claimed_at = today]]
             ELSE /\ response'.code = "rejected"
                  /\ donations' = donations]_vars

\* a user other than the donor claimed a donation that is claimed already,
\* and was rejected
C5_Witness ==
    /\ response.op = "claim_donation"
    /\ response.code = "rejected"
    /\ response.id \in DOMAIN donations
    /\ donations[response.id].status = "claimed"
    /\ donations[response.id].donor_id # response.user

\* C6: a cancel by a user who is not the donor, or of a donation that is
\* neither available nor claimed, fails and leaves the donations and the
\* food items as they were.
C6_CancelOnlyByDonorWhenActive ==
    [][\A u \in Users, d \in DonationIds :
          (/\ cancel_donation(u, d)
           /\ d \in DOMAIN donations
           /\ ~(/\ donations[d].donor_id = u
                /\ donations[d].status \in {"available", "claimed"}))
          => /\ response'.code = "rejected"
             /\ donations' = donations
             /\ food_items' = food_items]_vars

\* the claimant of a claimed donation tried to cancel it and was rejected
C6_Witness ==
    /\ response.op = "cancel_donation"
    /\ response.code = "rejected"
    /\ response.id \in DOMAIN donations
    /\ donations[response.id].status = "claimed"
    /\ donations[response.id].claimant_id = response.user

\* C7: a complete by a user who is not the donor (the claimant included)
\* fails and leaves the donation as it was.
C7_CompleteOnlyByDonor ==
    [][\A u \in Users, d \in DonationIds :
          (/\ complete_donation(u, d)
           /\ d \in DOMAIN donations
           /\ donations[d].donor_id # u)
          => /\ response'.code = "rejected"
             /\ donations' = donations]_vars

\* the claimant of a claimed donation tried to complete it and was rejected
C7_Witness ==
    /\ response.op = "complete_donation"
    /\ response.code = "rejected"
    /\ response.id \in DOMAIN donations
    /\ donations[response.id].status = "claimed"
    /\ donations[response.id].claimant_id = response.user

\* C8: a donation has a claimant exactly when its status is claimed or
\* completed.
C8_ClaimantIffClaimedOrCompleted ==
    \A d \in DOMAIN donations :
        donations[d].claimant_id # NULL
            <=> donations[d].status \in {"claimed", "completed"}

\* C9: no donation's claimant is its donor, however the requests of the
\* workers interleave.
C9_ClaimantIsNotDonor ==
    \A d \in DOMAIN donations : donations[d].claimant_id # donations[d].donor_id

\* a claim committed between the lookup and the commit of the donor's
\* cancel: the donation is cancelled and keeps the claimant
C9_Witness ==
    \E d \in DOMAIN donations :
        donations[d].claimant_id # NULL /\ donations[d].status = "cancelled"

\* C10: after a successful cancel the food item's status is the one the date
\* rule yields for its expiry date and the current date.
C10_CancelResetsByDateRule ==
    [][\A u \in Users, d \in DonationIds :
          (/\ cancel_donation(u, d)
           /\ response'.code = "ok"
           /\ donations[d].food_item_id \in DOMAIN food_items)
          => LET i == donations[d].food_item_id
             IN  food_items'[i].current_status =
                     FoodItem_update_status(food_items[i], today).current_status]_vars

\* C11: a cancel by the donor of an available or claimed donation succeeds
\* and, in its one step, leaves the donation cancelled with claimant and
\* claimed_at NULL and the food item with a status other than donated.
C11_CancelOutcome ==
    [][\A u \in Users, d \in DonationIds :
          (/\ cancel_donation(u, d)
           /\ d \in DOMAIN donations
           /\ donations[d].donor_id = u
           /\ donations[d].status \in {"available", "claimed"})
          => /\ response'.code = "ok"
             /\ donations'[d].status = "cancelled"
             /\ donations'[d].claimant_id = NULL
             /\ donations'[d].claimed_at = NULL
             /\ food_items'[donations[d].food_item_id].current_status # "donated"]_vars

\* the donor's cancel was served: the donation is cancelled, without
\* claimant, and its food item is no longer donated
C11_Witness ==
    /\ response.op = "cancel_donation"
    /\ response.code = "ok"
    /\ donations[response.id].status = "cancelled"
    /\ donations[response.id].claimant_id = NULL
    /\ food_items[donations[response.id].food_item_id].current_status = "fresh"

\* C17: both /inventory and /api/food_items report every item whose stored
\* status is not terminal with the status the date rule yields for the
\* current date.
C17_ListedStatusIsCurrent ==
    [][\A u \in Users :
          (dashboard(u) \/ api_food_items(u))
          => \A i \in DOMAIN response'.items :
                 food_items[i].current_status \notin TerminalStatuses =>
                     response'.items[i] =
                         FoodItem_update_status(food_items[i], today).current_status]_vars

\* C18: every donation with status completed has a delivered_at timestamp.
C18_CompletedHasDeliveredAt ==
    \A d \in DOMAIN donations :
        donations[d].status = "completed" => donations[d].delivered_at # NULL

\* C19: the end-to-end trace, step by step: user 1 adds an item expiring in
\* two days and it is expiring_soon; user 1 donates that item and it is
\* donated, with a new donation that is available; user 2 claims the donation
\* and it is claimed by user 2, the food items untouched; user 1 completes
\* the claimed donation and it is completed.
C19_EndToEnd ==
    [][/\ add_food(1, today + 2)
              => food_items'[Len(food_items')].current_status = "expiring_soon"
       /\ \A i \in ItemIds :
              (/\ create_donation(1, i)
               /\ i \in DOMAIN food_items
               /\ food_items[i].user_id = 1
               /\ food_items[i].current_status = "expiring_soon")
              => /\ food_items'[i].current_status = "donated"
                 /\ Len(donations') = Len(donations) + 1
                 /\ donations'[Len(donations')] = Donation(i, 1)
                 /\ donations'[Len(donations')].status = "available"
       /\ \A d \in DonationIds :
              (/\ claim_donation(2, d)
               /\ d \in DOMAIN donations
               /\ donations[d].donor_id = 1
               /\ donations[d].status = "available")
              => /\ donations'[d].status = "claimed"
                 /\ donations'[d].claimant_id = 2
                 /\ food_items' = food_items
       /\ \A d \in DonationIds :
              (/\ complete_donation(1, d)
               /\ d \in DOMAIN donations
               /\ donations[d].donor_id = 1
               /\ donations[d].status = "claimed")
              => donations'[d].status = "completed"]_vars

\* the end of the trace: user 1 has just completed the donation of the own
\* item that expires in two days, which user 2 claimed today
C19_Witness ==
    /\ response.op = "complete_donation"
    /\ response.code = "ok"
    /\ response.user = 1
    /\ LET donation == donations[response.id]
           food_item == food_items[donation.food_item_id]
       IN  /\ donation.status = "completed"
           /\ donation.donor_id = 1
           /\ donation.claimant_id = 2
           /\ donation.claimed_at = today
           /\ food_item.user_id = 1
           /\ food_item.expiry_date = today + 2
           /\ food_item.current_status = "donated"

\* the status the claim gives to expiry date d on current date t
C16_Rule(d, t) ==
    CASE d < t -> "expired"
      [] t <= d /\ d <= t + 3 -> "expiring_soon"
      [] d > t + 3 -> "fresh"

\* C16: for every expiry date d and current date t, a newly constructed item
\* and a recomputed item that is not terminal have status expired iff d < t,
\* expiring_soon iff t <= d <= t+3, and fresh iff d > t+3.
C16_DateRule ==
    [][/\ \A u \in Users, d \in ExpiryDates :
              add_food(u, d)
              => food_items'[Len(food_items')].current_status = C16_Rule(d, today)
       /\ \A u \in Users :
              dashboard(u)
              => \A i \in DOMAIN response'.items :
                     food_items[i].current_status \notin TerminalStatuses =>
                         response'.items[i] =
                             C16_Rule(food_items[i].expiry_date, today)]_vars

\* an item listed on the last day on which it is expiring_soon
C16_Witness ==
    /\ response.op = "dashboard"
    /\ \E i \in DOMAIN response.items :
           /\ food_items[i].expiry_date = today + 3
           /\ response.items[i] = "expiring_soon"

\* C15: a claim that passed its checks commits whatever the row holds by
\* then: no lock or version check rejects it, and after its commit the
\* donation is claimed by its caller, so of two concurrent claims of an
\* available donation the one that commits last is the claimant.
C15_LastCommitWins ==
    [][\A w \in Workers :
          claim_donation_commit(w)
          => /\ response'.code = "ok"
             /\ donations'[sessions[w].id].status = "claimed"
             /\ donations'[sessions[w].id].claimant_id = sessions[w].user]_vars

\* two users other than the donor read the donation as available; one has
\* committed and is the claimant, the commit of the other is still to come
C15_Witness ==
    \E w \in Workers :
        /\ sessions[w].pc = "claim_donation"
        /\ sessions[w].row.status = "available"
        /\ LET donation == donations[sessions[w].id]
           IN  /\ donation.status = "claimed"
               /\ donation.claimant_id \notin {NULL, sessions[w].user, donation.donor_id}
               /\ sessions[w].user # donation.donor_id

\* C12: in every reachable state there is at most one Achievement record per
\* (user, achievement name), also when evaluations for one user run
\* concurrently and interleave between the existence check and the insert.
C12_OneRecordPerUserAndName ==
    \A i, j \in DOMAIN achievements :
        (/\ achievements[i].user_id = achievements[j].user_id
         /\ achievements[i].name = achievements[j].name) => i = j

\* C13: the evaluator is idempotent when run sequentially: a call that
\* follows a call with the same (user, category, count) leaves the records
\* as they are and returns no earned achievement; a second check of
\* donations.py for the same (user, key) adds nothing either.
C13_EvaluatorIdempotent ==
    [][/\ (/\ response.op = "check_achievements"
           /\ check_achievements(response.user, response.code, response.id))
          => /\ achievements' = achievements
             /\ response'.items = <<>>
       /\ \A u \in Users, k \in AchievementKeys :
              LET once == donations_check_achievements(achievements, u, k)
              IN  donations_check_achievements(once, u, k) = once]_vars

\* the second of two calls with a count that reaches the target: the record
\* of the first is there and nothing is earned
C13_Witness ==
    /\ response.op = "check_achievements"
    /\ response.items = <<>>
    /\ \E k \in AchievementKeys :
           /\ ACHIEVEMENTS(k).type = response.code
           /\ response.id >= ACHIEVEMENTS(k).target
           /\ \E i \in DOMAIN achievements :
                  /\ achievements[i].user_id = response.user
                  /\ achievements[i].name = ACHIEVEMENTS(k).name

\* C14: for every definition whose type is the event category the evaluator
\* creates one record (progress 100, target_value the target) exactly when
\* the user has no record of that name and the count is at least the target;
\* otherwise it creates nothing, and it creates and changes nothing else.
C14_CreatesExactlyWhenEarned ==
    [][(/\ response'.op = "check_achievements"
        /\ check_achievements(response'.user, response'.code, response'.id))
       => LET u == response'.user
              t == response'.code
              c == response'.id
              old == DOMAIN achievements
              new == (DOMAIN achievements') \ old
              of(k) == {i \in new : /\ achievements'[i].user_id = u
                                    /\ achievements'[i].name = ACHIEVEMENTS(k).name}
              had(k) == \E i \in old :
                            /\ achievements[i].user_id = u
                            /\ achievements[i].name = ACHIEVEMENTS(k).name
              matching == {k \in AchievementKeys : ACHIEVEMENTS(k).type = t}
          IN  /\ \A i \in old : achievements'[i] = achievements[i]
              /\ new = UNION {of(k) : k \in matching}
              /\ \A k \in matching :
                     IF ~had(k) /\ c >= ACHIEVEMENTS(k).target
                     THEN /\ Cardinality(of(k)) = 1
                          /\ \A i \in of(k) :
                                 /\ achievements'[i].progress = 100
                                 /\ achievements'[i].target_value =
                                        ACHIEVEMENTS(k).target
                     ELSE of(k) = {}]_vars

\* a call with the count at a target above 1 has created the record
C14_Witness ==
    /\ response.op = "check_achievements"
    /\ response.items # <<>>
    /\ \E k \in AchievementKeys :
           /\ ACHIEVEMENTS(k).target > 1
           /\ response.id = ACHIEVEMENTS(k).target
           /\ response.code = ACHIEVEMENTS(k).type
           /\ achievements[Len(achievements)].name = ACHIEVEMENTS(k).name
           /\ achievements[Len(achievements)].user_id = response.user

\* the items of the user of the last request, and the wasted ones among them
C20_Total == Cardinality({i \in DOMAIN food_items :
                             food_items[i].user_id = response.user})

C20_Wasted == Cardinality({i \in DOMAIN food_items :
                              /\ food_items[i].user_id = response.user
                              /\ food_items[i].current_status = "wasted"})

C20_IsStats == response.op \in {"get_user_stats", "calculate_waste_stats"}

\* C20 as stated: the waste percentage is 0 when the user has no items and
\* otherwise wasted/total*100, between 0 and 100, in both implementations.
C20_ExactPercentage ==
    C20_IsStats =>
        LET p == response.items[1].waste_percentage
            one == IF response.items[1].ndigits = 1 THEN 10 ELSE 100
        IN  /\ C20_Total = 0 => p = 0
            /\ C20_Total > 0 => p * C20_Total = C20_Wasted * 100 * one
            /\ 0 <= p /\ p <= 100 * one

\* C20 as the code has it: the waste percentage is 0 when the user has no
\* items and otherwise wasted/total*100 rounded to one decimal
\* (get_user_stats) or to two (calculate_waste_stats), so within half a unit
\* of the last decimal of the quotient; 3 of 10 gives 30.0; it lies between
\* 0 and 100.
C20_RoundedPercentage ==
    C20_IsStats =>
        LET p == response.items[1].waste_percentage
            one == IF response.op = "get_user_stats" THEN 10 ELSE 100
            exact == C20_Wasted * 100 * one
            off == IF p * C20_Total >= exact
                   THEN p * C20_Total - exact
                   ELSE exact - p * C20_Total
        IN  /\ C20_Total = 0 => p = 0
            /\ C20_Total > 0 => 2 * off <= C20_Total
            /\ (C20_Total = 10 /\ C20_Wasted = 3) => p = 30 * one
            /\ 0 <= p /\ p <= 100 * one

\* 2 wasted of 3: get_user_stats has answered 66.7
C20_Witness ==
    /\ response.op = "get_user_stats"
    /\ C20_Total = 3
    /\ C20_Wasted = 2
    /\ response.items[1].waste_percentage = 667

\* the records of every table
C22_Records == <<users, food_items, donations, achievements>>

\* C22: a claim, complete, cancel or update_status request that names a
\* record id which does not exist ends in not found (HTTP 404) and leaves
\* every User, FoodItem, Donation and Achievement record unchanged.
C22_MissingIdIsNotFound ==
    [][/\ \A u \in Users, d \in DonationIds \ DOMAIN donations :
              (\/ claim_donation(u, d)
               \/ complete_donation(u, d)
               \/ cancel_donation(u, d))
              => /\ response'.code = "404"
                 /\ C22_Records' = C22_Records
       /\ \A u \in Users, i \in ItemIds \ DOMAIN food_items,
             new_status \in PostedStatuses :
              update_status(u, i, new_status)
              => /\ response'.code = "404"
                 /\ C22_Records' = C22_Records]_vars

\* a complete request for a donation id beyond the last one was answered 404
C22_Witness ==
    /\ response.op = "complete_donation"
    /\ response.id \notin DOMAIN donations
    /\ response.code = "404"

\* C24: a successful claim changes only the claimed donation's status,
\* claimant and claimed_at: its food item, every other food item, every
\* other donation and all achievement records are unchanged.
C24_ClaimFrame ==
    [][\A u \in Users, d \in DonationIds :
          (claim_donation(u, d) /\ response'.code = "ok")
          => /\ food_items' = food_items
             /\ achievements' = achievements
             /\ DOMAIN donations' = DOMAIN donations
             /\ \A e \in DOMAIN donations : e # d => donations'[e] = donations[e]
             /\ donations'[d] = [donations'[d] EXCEPT
                                    !.food_item_id = donations[d].food_item_id,
                                    !.donor_id = donations[d].donor_id,
                                    !.delivered_at = donations[d].delivered_at]
             /\ [donations[d] EXCEPT !.status = donations'[d].status,
                                     !.claimant_id = donations'[d].claimant_id,
                                     !.claimed_at = donations'[d].claimed_at]
                    = donations'[d]]_vars

\* a claim succeeded while another donation exists, and the item of the
\* claimed donation is as it was: donated
C24_Witness ==
    /\ response.op = "claim_donation"
    /\ response.code = "ok"
    /\ Len(donations) > 1
    /\ donations[response.id].status = "claimed"
    /\ donations[response.id].claimant_id = response.user
    /\ food_items[donations[response.id].food_item_id].current_status = "donated"

\* C25: update_status changes a food item's stored status only when the
\* caller owns the item and the requested status is consumed or wasted; a
\* request by a non-owner, or with any other status (answered with HTTP
\* 400), leaves the stored status unchanged.
C25_UpdateOnlyByOwnerToConsumedOrWasted ==
    [][\A u \in Users, i \in ItemIds, new_status \in PostedStatuses :
          (i \in DOMAIN food_items /\ update_status(u, i, new_status))
          => LET owner == food_items[i].user_id = u
                 valid == new_status \in {"consumed", "wasted"}
             IN  /\ (owner /\ valid) => food_items'[i].current_status = new_status
                 /\ ~(owner /\ valid) => food_items' = food_items
                 /\ ~owner => response'.code = "rejected"
                 /\ (owner /\ ~valid) => response'.code = "400"]_vars

\* the owner posted a status other than consumed or wasted: HTTP 400
C25_Witness ==
    /\ response.op = "update_status"
    /\ response.code = "400"
    /\ response.id \in DOMAIN food_items
    /\ food_items[response.id].user_id = response.user

C27_ActiveDonationItemIsDonated ==
    \A d \in DOMAIN donations :
        donations[d].status \in {"available", "claimed"}
        => food_items[donations[d].food_item_id].current_status = "donated"

\* C28: each food item has at most one donation whose status is available
\* or claimed.
C28_OneActiveDonationPerItem ==
    \A d, e \in DOMAIN donations :
        (/\ donations[d].food_item_id = donations[e].food_item_id
         /\ donations[d].status \in {"available", "claimed"}
         /\ donations[e].status \in {"available", "claimed"}) => d = e

\* C30: send_message with a non-empty message by the donor or the claimant
\* of the donation completes with a message addressed to the other party,
\* in every donation status, and changes no record.
C30_SendMessageCompletes ==
    [][\A u \in Users, d \in DOMAIN donations, m \in Messages \ {""} :
          (/\ u \in {donations[d].donor_id, donations[d].claimant_id}
           /\ send_message(u, d, m))
          => /\ response'.code = "ok"
             /\ response'.items # <<>>
             /\ response'.items[1].to \in
                    {donations[d].donor_id, donations[d].claimant_id} \ {u}
             /\ C22_Records' = C22_Records]_vars

\* C23: no exception raised inside a notification stub propagates to the
\* caller: each returns True or False.
C23_StubsNeverRaise ==
    response.op \in {"send_expiry_alert", "send_waste_report",
                     "send_donation_notification", "send_welcome_email",
                     "send_test_notification"}
    => response.code \in {"True", "False"}

\* C29: once all create_donation requests have finished, a user who has
\* made at least one donation holds the First Donation achievement.
C29_DonorHoldsFirstDonation ==
    (\A w \in Workers : sessions[w].pc = "idle")
    => \A u \in Users :
           (\E d \in DOMAIN donations : donations[d].donor_id = u)
           => \E a \in DOMAIN achievements :
                  /\ achievements[a].user_id = u
                  /\ achievements[a].name = ACHIEVEMENTS("first_donation").name

\* C21: no two User records share a username and no two share an email,
\* also when two registrations with the same username or email both pass
\* the form's check before either commits; a registration with a username
\* or an email that is in use creates no User.
C21_UniqueUsernameAndEmail ==
    [][/\ \A i, j \in DOMAIN users' :
              (\/ users'[i].username = users'[j].username
               \/ users'[i].email = users'[j].email) => i = j
       /\ \A w \in Workers :
              (/\ register_commit(w)
               /\ \E i \in DOMAIN users :
                      \/ users[i].username = sessions[w].row.username
                      \/ users[i].email = sessions[w].row.email)
              => users' = users
       /\ \A w \in Workers, username \in Usernames, email \in Emails :
              (/\ register_validate(w, username, email)
               /\ \E i \in DOMAIN users :
                      \/ users[i].username = username
                      \/ users[i].email = email)
              => /\ users' = users
                 /\ sessions' = sessions]_vars

\* a registration that passed the form's check found its email taken by
\* the time it committed: it was refused and the holder is the only one
C21_Witness ==
    /\ response.op = "register"
    /\ response.code = "500"
    /\ Cardinality({i \in DOMAIN users : users[i].email = response.id}) = 1

====
